---- MODULE Spec2Model ----
(***************************************************************************)
(* A model of yosai's DefaultAuthenticator (src/yosai/core/authc/authc.py). *)
(*                                                                         *)
(* The state is the authenticator's fields, the subscriptions held by the  *)
(* event bus, and a record of the last operation: its inputs, what the     *)
(* collaborators (realms, strategy, event bus, mfa challenger) were asked  *)
(* to do during it, and how it ended.  Every operation is one action that  *)
(* models the whole handler.                                               *)
(*                                                                         *)
(* Python's None is the string "None" for scalar references; the realms    *)
(* field, which is None or a tuple, is a record [none, seq].               *)
(*                                                                         *)
(* UsernamePasswordToken's construction and clear() are a specification of *)
(* their own, SpecToken, over the variable upt.                          *)
(***************************************************************************)
EXTENDS Integers, Sequences, FiniteSets, TLC

VARIABLES
    constructed,          \* FALSE: __init__ raised, there is no authenticator
    authc_settings,       \* account_lock_threshold (0: not configured)
    mfa_challenger,       \* "None" or "challenger"
    token_realm_resolver, \* defaultdict(list): token class -> realm names
    realms,               \* [none, seq]: None, or the tuple of realm names
    locking_realm,        \* "None" or a realm name
    locking_limit,        \* 0 for None, else the threshold
    event_bus,            \* "None" or "bus"
    subscriptions,        \* topics clear_cache is registered for on the bus
    op,                   \* the last operation
    arg,                  \* its inputs
    outcome,              \* [exc, account]: what it raised or returned
    published,            \* events published during it, in order
    realm_calls,          \* realms whose authenticate_account it invoked
    strategy_calls,       \* the realms of each attempt handed to the strategy
    locked,               \* lock_account calls made during it
    challenged,           \* send_challenge calls made during it
    evicted,              \* clear_cached_credentials calls made during it
    upt                   \* a UsernamePasswordToken and its last operation

vars == <<upt, constructed, authc_settings, mfa_challenger,
          token_realm_resolver,
          realms, locking_realm, locking_limit, event_bus, subscriptions,
          op, arg, outcome, published, realm_calls, strategy_calls, locked,
          challenged, evicted>>

config == <<constructed, authc_settings, mfa_challenger>>

trace == <<op, arg, outcome, published, realm_calls, strategy_calls, locked,
           challenged, evicted>>

None == "None"

----------------------------------------------------------------------------
(* Bounds of the model *)

\* longest realm list handed to init_realms
MaxRealms == 2
\* largest account_lock_threshold in the settings
MaxThreshold == 1
\* most failed attempts a verification failure carries
MaxAttempts == 2
\* longest required_authc_tokens of an account
MaxRequired == 2
\* longest password handed to UsernamePasswordToken
MaxSecretLen == 2

----------------------------------------------------------------------------
(* The collaborators *)

\* token classes and their TIER; UsernamePasswordToken.TIER is line 46, and
\* authc_token.tier (line 285) is taken to be the same number
TokenClasses == {"UsernamePasswordToken", "TOTPToken"}

TIER(cls) == IF cls = "UsernamePasswordToken" THEN 1 ELSE 2

\* the realms a configuration draws from: what the authenticator asks of a
\* realm is whether it is an AuthenticatingRealm, its supported_tokens(),
\* whether it is a LockingRealm and whether it has clear_cached_credentials
RealmUniverse ==
    { [name |-> "r1", authenticating |-> TRUE,
       supported_tokens |-> {"UsernamePasswordToken"},
       locking |-> FALSE, can_clear |-> TRUE],
      [name |-> "r2", authenticating |-> TRUE,
       supported_tokens |-> {"UsernamePasswordToken", "TOTPToken"},
       locking |-> TRUE, can_clear |-> FALSE],
      [name |-> "r3", authenticating |-> TRUE,
       supported_tokens |-> {"TOTPToken"},
       locking |-> FALSE, can_clear |-> TRUE],
      [name |-> "r4", authenticating |-> FALSE,
       supported_tokens |-> {"UsernamePasswordToken"},
       locking |-> TRUE, can_clear |-> TRUE] }

RealmNames == {r.name : r \in RealmUniverse}

Realm(n) == CHOOSE r \in RealmUniverse : r.name = n

\* realm lists without repetition, up to n realms
RealmLists(n) ==
    {s \in UNION {[1..k -> RealmNames] : k \in 0..n} :
        \A i, j \in DOMAIN s : i # j => s[i] # s[j]}

\* a token: its class, its identifier and its username (lines 67-68 set both
\* from the same constructor argument)
Tokens == {[cls |-> c, identifier |-> "alice", username |-> "alice"] :
            c \in TokenClasses}

\* the identifiers argument: None, or the identifiers an earlier step gave,
\* with their primary identifier
IdentifiersArgs ==
    {[present |-> FALSE, primary_identifier |-> None],
     [present |-> TRUE, primary_identifier |-> "alice@r2"]}

\* the account_id of the accounts the realms hold
AccountIds == {"account-alice"}

NoAccount == [account_id |-> None, required_authc_tokens |-> 0,
              failed_attempts |-> 0]

\* what realm.authenticate_account or strategy.execute answers: an account,
\* None, or a verification failure (an AuthenticationException carrying the
\* failed attempts recorded for the token class)
Verdicts ==
    {[kind |-> "account", account_id |-> i, required_authc_tokens |-> n,
      failed_attempts |-> 0] : i \in AccountIds, n \in 0..MaxRequired}
    \cup {[kind |-> "None", account_id |-> None, required_authc_tokens |-> 0,
           failed_attempts |-> 0]}
    \cup {[kind |-> "AuthenticationException", account_id |-> i,
           required_authc_tokens |-> 0, failed_attempts |-> n] :
            i \in AccountIds, n \in 0..MaxAttempts}

AccountOf(v) == [account_id |-> v.account_id,
                 required_authc_tokens |-> v.required_authc_tokens,
                 failed_attempts |-> v.failed_attempts]

\* the context threaded through one call: what the collaborators were asked
\* so far, the exception in flight ("None": none) and the account in hand
Ctx0 == [exc |-> None, account |-> NoAccount, published |-> <<>>,
         realm_calls |-> <<>>, strategy_calls |-> <<>>, locked |-> <<>>,
         challenged |-> <<>>]

Raise(ctx, e) == [ctx EXCEPT !.exc = e]

Event(name, who, token) == [name |-> name, who |-> who, token |-> token]

----------------------------------------------------------------------------
(* Initialization *)

\* init_token_resolution over the realm names rs: a defaultdict(list) whose
\* keys are the token classes some AuthenticatingRealm of rs supports
init_token_resolution(rs) ==
    LET supports(n, c) == /\ Realm(n).authenticating
                          /\ c \in Realm(n).supported_tokens
        keys == {c \in TokenClasses : \E i \in DOMAIN rs : supports(rs[i], c)}
    IN  [c \in keys |-> SelectSeq(rs, LAMBDA n : supports(n, c))]

\* what self.realms yields at line 203, which __init__ reaches (line 170)
\* before it assigns self.realms (line 173): the instance has no such
\* attribute yet, so the lookup falls through to the classes
\* authc_abcs.Authenticator and event_abcs.EventBusAware; it raises
\* AttributeError (absent) or yields what is defined there, which holds no
\* realm of any configuration
InheritedRealms ==
    {[absent |-> TRUE, seq |-> <<>>], [absent |-> FALSE, seq |-> <<>>]}

\* locate_locking_realm: the first LockingRealm of self.realms, or None
locate_locking_realm(rs) ==
    IF \E i \in DOMAIN rs : Realm(rs[i]).locking
    THEN rs[CHOOSE i \in DOMAIN rs :
                /\ Realm(rs[i]).locking
                /\ \A j \in 1..(i - 1) : ~Realm(rs[j]).locking]
    ELSE None

\* register_cache_clear_listener: the topics registered after the call
register_cache_clear_listener(bus, subs) ==
    IF bus # None THEN subs \cup {"SESSION.EXPIRE", "SESSION.STOP"} ELSE subs

\* no token is under consideration
NoToken ==
    [exists |-> FALSE, op |-> None, exc |-> None, host |-> None,
     password |-> <<>>, is_remember_me |-> FALSE, remember_me |-> "absent",
     username |-> None, identifier |-> None,
     credentials |-> [type |-> "str", chars |-> <<>>],
     given |-> [username |-> None,
                password |-> [type |-> "str", chars |-> <<>>],
                remember_me |-> FALSE, host |-> None]]

Init ==
    /\ upt = NoToken
    /\ \E inherited \in InheritedRealms :
         /\ constructed = ~inherited.absent
         /\ token_realm_resolver = init_token_resolution(inherited.seq)
         /\ outcome = [exc |-> IF inherited.absent THEN "AttributeError"
                                ELSE None,
                       account |-> NoAccount]
    /\ authc_settings \in 0..MaxThreshold
    /\ mfa_challenger \in {None, "challenger"}
    /\ realms = [none |-> TRUE, seq |-> <<>>]
    /\ locking_realm = None
    /\ locking_limit = 0
    /\ event_bus = None
    /\ subscriptions = {}
    /\ op = "__init__"
    /\ arg = <<>>
    /\ published = <<>>
    /\ realm_calls = <<>>
    /\ strategy_calls = <<>>
    /\ locked = <<>>
    /\ challenged = <<>>
    /\ evicted = <<>>

\* the trace of an operation that involves no collaborator of a login
Quiet(name, a, exc) ==
    /\ op' = name
    /\ arg' = a
    /\ outcome' = [exc |-> exc, account |-> NoAccount]
    /\ published' = <<>>
    /\ realm_calls' = <<>>
    /\ strategy_calls' = <<>>
    /\ locked' = <<>>
    /\ challenged' = <<>>

\* the event_bus setter
SetEventBus(bus) ==
    /\ constructed
    /\ event_bus' = bus
    /\ Quiet("event_bus", bus, None)
    /\ evicted' = <<>>
    /\ UNCHANGED <<upt, config, token_realm_resolver, realms, locking_realm,
                   locking_limit, subscriptions>>

\* init_realms, with register_cache_clear_listener and init_locking
InitRealms(rs) ==
    LET kept == SelectSeq(rs, LAMBDA n : Realm(n).authenticating)
    IN  /\ constructed
        /\ realms' = [none |-> FALSE, seq |-> kept]
        /\ subscriptions' = register_cache_clear_listener(event_bus,
                                                          subscriptions)
        /\ IF authc_settings # 0
           THEN /\ locking_realm' = locate_locking_realm(kept)
                /\ locking_limit' = authc_settings
           ELSE UNCHANGED <<locking_realm, locking_limit>>
        /\ Quiet("init_realms", rs, None)
        /\ evicted' = <<>>
        /\ UNCHANGED <<upt, config, token_realm_resolver, event_bus>>

----------------------------------------------------------------------------
(* Notification: event_bus.publish on a missing event bus is an             *)
(* AttributeError, which each notify_* turns into                           *)
(* AuthenticationEventException                                             *)

publish(ctx, event) ==
    IF event_bus = None
    THEN Raise(ctx, "AuthenticationEventException")
    ELSE [ctx EXCEPT !.published = Append(@, event)]

notify_locked(ctx, identifier) ==
    publish(ctx, Event("AUTHENTICATION.ACCOUNT_LOCKED", identifier, None))

notify_progress(ctx, authc_token) ==
    publish(ctx, Event("AUTHENTICATION.PROGRESS", authc_token.identifier,
                       authc_token.cls))

\* notify_success dropping the notification when there is no event bus
notify_success_silent(ctx, account) ==
    IF event_bus = None THEN ctx
    ELSE publish(ctx, Event("AUTHENTICATION.SUCCEEDED", account.account_id,
                            None))

notify_success(ctx, account) ==
    publish(ctx, Event("AUTHENTICATION.SUCCEEDED", account.account_id, None))

notify_failure(ctx, authc_token) ==
    publish(ctx, Event("AUTHENTICATION.FAILED", authc_token.username, None))

----------------------------------------------------------------------------
(* authenticate_account *)

\* validate_locked with the threshold off by one
validate_locked_off_by_one(ctx, authc_token, account) ==
    IF locking_limit # 0 /\ account.failed_attempts > locking_limit + 1
    THEN IF locking_realm = None
         THEN Raise(ctx, "AttributeError")
         ELSE LET c1 == [ctx EXCEPT !.locked =
                            Append(@, [realm |-> locking_realm,
                                       account_id |-> account.account_id])]
                  c2 == notify_locked(c1, account.account_id)
              IN  IF c2.exc # None THEN c2
                  ELSE Raise(c2, "LockedAccountException")
    ELSE ctx

\* validate_locked locking as soon as the threshold is reached
validate_locked_at_threshold(ctx, authc_token, account) ==
    IF locking_limit # 0 /\ account.failed_attempts >= locking_limit
    THEN IF locking_realm = None
         THEN Raise(ctx, "AttributeError")
         ELSE LET c1 == [ctx EXCEPT !.locked =
                            Append(@, [realm |-> locking_realm,
                                       account_id |-> account.account_id])]
                  c2 == notify_locked(c1, account.account_id)
              IN  IF c2.exc # None THEN c2
                  ELSE Raise(c2, "LockedAccountException")
    ELSE ctx

\* validate_locked: account is the verification failure caught at line 257
validate_locked(ctx, authc_token, account) ==
    IF locking_limit # 0 /\ account.failed_attempts > locking_limit
    THEN IF locking_realm = None
         THEN Raise(ctx, "AttributeError")    \* None.lock_account, line 358
         ELSE LET c1 == [ctx EXCEPT !.locked =
                            Append(@, [realm |-> locking_realm,
                                       account_id |-> account.account_id])]
                  c2 == notify_locked(c1, account.account_id)
              IN  IF c2.exc # None THEN c2
                  ELSE Raise(c2, "LockedAccountException")
    ELSE ctx

\* token_realm_resolver after the lookup of line 275: a defaultdict inserts
\* a missing key with an empty list
Resolved(resolver, cls) ==
    IF cls \in DOMAIN resolver THEN resolver
    ELSE [c \in DOMAIN resolver \cup {cls} |->
            IF c = cls THEN <<>> ELSE resolver[c]]

authenticate_single_realm_account(ctx, realm) ==
    [ctx EXCEPT !.realm_calls = Append(@, realm)]

authenticate_multi_realm_account(ctx, rs) ==
    [ctx EXCEPT !.strategy_calls = Append(@, rs)]

\* the completion check asking for one more token than the account requires
CompletionCheck_off_by_one(ctx, authc_token, verdict) ==
    CASE verdict.kind = "AuthenticationException" ->
            [Raise(ctx, "AuthenticationException") EXCEPT
                !.account = AccountOf(verdict)]
      [] verdict.kind = "None" ->
            Raise(ctx, "AttributeError")
      [] OTHER ->
            IF verdict.required_authc_tokens >= TIER(authc_token.cls)
            THEN LET c1 == notify_progress(ctx, authc_token)
                 IN  IF c1.exc # None THEN c1
                     ELSE [Raise(c1, "AdditionalAuthenticationRequired")
                            EXCEPT !.account = AccountOf(verdict)]
            ELSE [ctx EXCEPT !.account = AccountOf(verdict)]

\* lines 283-290, on what the realm or the strategy answered
CompletionCheck(ctx, authc_token, verdict) ==
    CASE verdict.kind = "AuthenticationException" ->
            [Raise(ctx, "AuthenticationException") EXCEPT
                !.account = AccountOf(verdict)]
      [] verdict.kind = "None" ->
            Raise(ctx, "AttributeError")  \* None.required_authc_tokens
      [] OTHER ->
            IF verdict.required_authc_tokens > TIER(authc_token.cls)
            THEN LET c1 == notify_progress(ctx, authc_token)
                 IN  IF c1.exc # None THEN c1
                     ELSE [Raise(c1, "AdditionalAuthenticationRequired")
                            EXCEPT !.account = AccountOf(verdict)]
            ELSE [ctx EXCEPT !.account = AccountOf(verdict)]

do_authenticate_account(ctx, authc_token, verdict) ==
    LET rs == Resolved(token_realm_resolver, authc_token.cls)[authc_token.cls]
    IN  IF realms.none
        THEN Raise(ctx, "TypeError")          \* len(None), line 277
        ELSE IF Len(realms.seq) = 1
        THEN IF rs = <<>>
             THEN Raise(ctx, "IndexError")    \* realms[0], line 278
             ELSE CompletionCheck(
                    authenticate_single_realm_account(ctx, rs[1]),
                    authc_token, verdict)
        ELSE CompletionCheck(
                authenticate_multi_realm_account(ctx, realms.seq),
                authc_token, verdict)

\* the token as line 238 leaves it
Bound(identifiers, authc_token) ==
    IF TIER(authc_token.cls) # 1 /\ identifiers.present
    THEN [authc_token EXCEPT !.identifier = identifiers.primary_identifier]
    ELSE authc_token

\* lines 249-255: account is not bound when do_authenticate_account raised,
\* so with a challenger send_challenge(account) is an UnboundLocalError;
\* without one the AttributeError on None.send_challenge is passed over
OnAdditionalAuthenticationRequired(ctx, authc_token) ==
    LET c1 == notify_progress([ctx EXCEPT !.exc = None], authc_token)
    IN  IF c1.exc # None THEN c1
        ELSE IF mfa_challenger = None
        THEN Raise(c1, "AdditionalAuthenticationRequired")
        ELSE Raise(c1, "UnboundLocalError")

\* lines 257-260
OnAuthenticationException(ctx, authc_token) ==
    LET c1 == notify_failure([ctx EXCEPT !.exc = None], authc_token)
        c2 == validate_locked(c1, authc_token, ctx.account)
    IN  IF c1.exc # None THEN c1
        ELSE IF c2.exc # None THEN c2
        ELSE Raise(c2, "AuthenticationException")

\* lines 240-264: the try statement and what follows it
Attempt(identifiers, authc_token, verdict) ==
    LET token == Bound(identifiers, authc_token)
        c1 == do_authenticate_account(Ctx0, token, verdict)
    IN  CASE c1.exc = "AdditionalAuthenticationRequired" ->
                OnAdditionalAuthenticationRequired(c1, token)
          [] c1.exc = "AuthenticationException" ->
                OnAuthenticationException(c1, token)
          [] c1.exc = None -> notify_success(c1, c1.account)
          [] OTHER -> c1

\* authenticate_account without the tier gate of lines 234-237
authenticate_account_ungated(identifiers, authc_token, verdict) ==
    Attempt(identifiers, authc_token, verdict)

\* the whole of authenticate_account: the context it ends with
authenticate_account(identifiers, authc_token, verdict) ==
    IF TIER(authc_token.cls) # 1 /\ ~identifiers.present
    THEN Raise(Ctx0, "InvalidAuthenticationSequenceException")
    ELSE Attempt(identifiers, authc_token, verdict)

AuthenticateAccount(identifiers, authc_token, verdict) ==
    LET c == authenticate_account(identifiers, authc_token, verdict)
        reached == ~(TIER(authc_token.cls) # 1 /\ ~identifiers.present)
    IN  /\ constructed
        /\ op' = "authenticate_account"
        /\ arg' = [identifiers |-> identifiers, authc_token |-> authc_token,
                   verdict |-> verdict,
                   token_after |-> Bound(identifiers, authc_token)]
        /\ outcome' = [exc |-> c.exc,
                       account |-> IF c.exc \in {None,
                                        "AdditionalAuthenticationRequired"}
                                   THEN c.account ELSE NoAccount]
        /\ published' = c.published
        /\ realm_calls' = c.realm_calls
        /\ strategy_calls' = c.strategy_calls
        /\ locked' = c.locked
        /\ challenged' = c.challenged
        /\ evicted' = <<>>
        /\ token_realm_resolver' =
                IF reached
                THEN Resolved(token_realm_resolver, authc_token.cls)
                ELSE token_realm_resolver
        /\ UNCHANGED <<upt, config, realms, locking_realm, locking_limit,
                       event_bus, subscriptions>>

----------------------------------------------------------------------------
(* clear_cache *)

\* the event handed to clear_cache: None (the default), an object without
\* the expected fields, or an event whose identifiers give, for each realm
\* name, an identifier or None
Items ==
    {[kind |-> k, from_source |-> [n \in RealmNames |-> None]] :
        k \in {"None", "malformed"}}
    \cup {[kind |-> "event",
           from_source |-> [n \in RealmNames |->
                              IF n \in has THEN "alice" ELSE None]] :
            has \in SUBSET {n \in RealmNames : Realm(n).authenticating}}

\* the loop of lines 302-306 from the i-th realm on; an AttributeError ends
\* it (lines 307-310: a warning is logged and the call returns)
RECURSIVE ClearFrom(_, _, _)
ClearFrom(i, items, done) ==
    IF i > Len(realms.seq) THEN [exc |-> None, warned |-> FALSE,
                                 evicted |-> done]
    ELSE IF items.kind # "event"
    THEN [exc |-> None, warned |-> TRUE, evicted |-> done]
    ELSE LET identifier == items.from_source[realms.seq[i]]
         IN  IF identifier = None THEN ClearFrom(i + 1, items, done)
             ELSE IF ~Realm(realms.seq[i]).can_clear
             THEN [exc |-> None, warned |-> TRUE, evicted |-> done]
             ELSE ClearFrom(i + 1, items,
                            Append(done, [realm |-> realms.seq[i],
                                          identifier |-> identifier]))

clear_cache(items) ==
    IF realms.none
    THEN [exc |-> "TypeError", warned |-> FALSE, evicted |-> <<>>]
    ELSE ClearFrom(1, items, <<>>)

ClearCache(items) ==
    LET r == clear_cache(items)
    IN  /\ constructed
        /\ Quiet("clear_cache", items, r.exc)
        /\ evicted' = r.evicted
        /\ UNCHANGED <<upt, config, token_realm_resolver, realms, locking_realm,
                       locking_limit, event_bus, subscriptions>>

----------------------------------------------------------------------------
(* UsernamePasswordToken *)

\* the characters a password is made of: NUL, "a" and a character outside
\* ASCII
Chars == {0, 97, 233}

Secrets == UNION {[1..k -> Chars] : k \in 0..MaxSecretLen}

\* bytearray(password, 'utf-8'), line 93
RECURSIVE utf8(_)
utf8(chars) ==
    IF chars = <<>> THEN <<>>
    ELSE LET c == Head(chars)
         IN  (IF c < 128 THEN <<c>>
              ELSE <<192 + (c \div 64), 128 + (c % 64)>>)
             \o utf8(Tail(chars))

\* the constructor's arguments: the password is a str of characters or a
\* bytearray of bytes
TokenArgs ==
    [username : {"", "alice"},
     password : [type : {"str", "bytearray"}, chars : Secrets],
     remember_me : BOOLEAN,
     host : {None, "10.0.0.1"}]

\* the password setter, lines 85-95: the else of line 94 belongs to the str
\* test, so a bytearray is stored and then refused
PasswordAccepted(password) ==
    password.chars # <<>> /\ password.type = "str"

\* UsernamePasswordToken.__init__, lines 64-69
UsernamePasswordToken(a) ==
    IF ~PasswordAccepted(a.password) \/ a.username = ""
    THEN [NoToken EXCEPT !.op = "__init__", !.exc = "InvalidTokenException",
                         !.given = a]
    ELSE [exists |-> TRUE, op |-> "__init__", exc |-> None,
          host |-> a.host,
          password |-> utf8(a.password.chars),
          is_remember_me |-> a.remember_me,
          remember_me |-> "absent",
          username |-> a.username,
          identifier |-> a.username,
          credentials |-> a.password,
          given |-> a]

\* clear, lines 132-143: line 135 assigns an attribute remember_me, which is
\* not the is_remember_me property; _password is always a bytearray here,
\* so the TypeError of line 141 does not arise
clear(t) ==
    [t EXCEPT !.op = "clear", !.exc = None,
              !.identifier = None,
              !.host = None,
              !.remember_me = "False",
              !.password = [i \in DOMAIN t.password |-> 0]]

\* the authenticator's variables while a token alone is considered
NoAuthenticator ==
    /\ constructed = FALSE
    /\ authc_settings = 0
    /\ mfa_challenger = None
    /\ token_realm_resolver = <<>>
    /\ realms = [none |-> TRUE, seq |-> <<>>]
    /\ locking_realm = None
    /\ locking_limit = 0
    /\ event_bus = None
    /\ subscriptions = {}
    /\ op = None
    /\ arg = <<>>
    /\ outcome = [exc |-> None, account |-> NoAccount]
    /\ published = <<>>
    /\ realm_calls = <<>>
    /\ strategy_calls = <<>>
    /\ locked = <<>>
    /\ challenged = <<>>
    /\ evicted = <<>>

TokenInit ==
    /\ \E a \in TokenArgs : upt = UsernamePasswordToken(a)
    /\ NoAuthenticator

TokenClear ==
    /\ upt.exists
    /\ upt' = clear(upt)
    /\ UNCHANGED <<config, trace, token_realm_resolver, realms, locking_realm,
                   locking_limit, event_bus, subscriptions>>

TokenNext == TokenClear

SpecToken == TokenInit /\ [][TokenNext]_vars

----------------------------------------------------------------------------

Next ==
    \/ \E bus \in {None, "bus"} : SetEventBus(bus)
    \/ \E rs \in RealmLists(MaxRealms) : InitRealms(rs)
    \/ \E identifiers \in IdentifiersArgs, authc_token \in Tokens,
          verdict \in Verdicts :
            AuthenticateAccount(identifiers, authc_token, verdict)
    \/ \E items \in Items : ClearCache(items)

Spec == Init /\ [][Next]_vars

----------------------------------------------------------------------------
(* Properties *)

IsAuth == op = "authenticate_account"

\* the call is stopped by the tier gate
Gated == TIER(arg.authc_token.cls) # 1 /\ ~arg.identifiers.present

\* a realm or the strategy was asked for a verdict during the call
Verified == realm_calls # <<>> \/ strategy_calls # <<>>

\* several realms are configured, so the strategy arbitrates
MultiRealm == ~realms.none /\ Len(realms.seq) > 1

Count(name) == Cardinality({i \in DOMAIN published : published[i].name = name})

Supports(n, cls) == Realm(n).authenticating /\ cls \in Realm(n).supported_tokens

\* C1: a token of tier > 1 submitted without identifiers fails with
\* InvalidAuthenticationSequenceException before any realm or the strategy
\* is invoked and before any notification is published
C1_TierGate ==
    (IsAuth /\ TIER(arg.authc_token.cls) > 1 /\ ~arg.identifiers.present)
    => /\ outcome.exc = "InvalidAuthenticationSequenceException"
       /\ realm_calls = <<>>
       /\ strategy_calls = <<>>
       /\ published = <<>>
       /\ locked = <<>>

C1_Witness ==
    /\ IsAuth /\ TIER(arg.authc_token.cls) > 1 /\ ~arg.identifiers.present
    /\ ~realms.none /\ Len(realms.seq) > 1 /\ event_bus # None
    /\ arg.verdict.kind = "account"
    /\ outcome.exc = "InvalidAuthenticationSequenceException"

\* what C2 says of a verification failure with N+1 recorded failed attempts
\* under threshold N, with a locking realm located
LockingCase ==
    /\ IsAuth /\ Verified
    /\ arg.verdict.kind = "AuthenticationException"
    /\ authc_settings # 0 /\ locking_limit = authc_settings
    /\ locking_realm # None
    /\ arg.verdict.failed_attempts = locking_limit + 1

LockedOutcome ==
    /\ locked = <<[realm |-> locking_realm,
                   account_id |-> arg.verdict.account_id]>>
    /\ Count("AUTHENTICATION.ACCOUNT_LOCKED") = 1
    /\ outcome.exc = "LockedAccountException"

\* C2 as stated: with threshold N and a verification failure carrying N+1
\* failed attempts the account is locked through the locking realm,
\* ACCOUNT_LOCKED is published exactly once and LockedAccountException is
\* raised
C2_LockingAsStated == LockingCase => LockedOutcome

\* C2 amended: the same, provided an event bus is set; without one the
\* failure notification raises AuthenticationEventException first
C2_Locking == (LockingCase /\ event_bus # None) => LockedOutcome

C2_Witness == LockingCase /\ event_bus # None /\ LockedOutcome

\* C3: with several realms configured, none of them locking-capable, a
\* verification failure locks nothing, publishes no ACCOUNT_LOCKED and is
\* re-raised, whatever the failed-attempt count and the threshold
C3_NoLockingRealmNoOp ==
    (/\ IsAuth /\ Verified /\ event_bus # None
     /\ arg.verdict.kind = "AuthenticationException"
     /\ MultiRealm
     /\ \A i \in DOMAIN realms.seq : ~Realm(realms.seq[i]).locking)
    => /\ locked = <<>>
       /\ Count("AUTHENTICATION.ACCOUNT_LOCKED") = 0
       /\ outcome.exc = "AuthenticationException"

\* C4: for an account with two required_authc_tokens, a tier-1 token ends
\* in AdditionalAuthenticationRequired carrying the account, and a tier-2
\* token submitted with the identifiers returns the account
C4_MultiFactor ==
    (/\ IsAuth /\ Verified /\ event_bus # None /\ MultiRealm
     /\ arg.verdict.kind = "account"
     /\ arg.verdict.required_authc_tokens = 2)
    => /\ TIER(arg.authc_token.cls) = 1
            => /\ outcome.exc = "AdditionalAuthenticationRequired"
               /\ outcome.account = AccountOf(arg.verdict)
       /\ (TIER(arg.authc_token.cls) = 2 /\ arg.identifiers.present)
            => /\ outcome.exc = None
               /\ outcome.account = AccountOf(arg.verdict)

\* C5: with a single realm that does not support the submitted token's
\* class, the call fails with UnknownAccountException and publishes no
\* AUTHENTICATION.SUCCEEDED
C5_NoRealmForClass ==
    (/\ IsAuth /\ ~Gated /\ ~realms.none /\ Len(realms.seq) = 1
     /\ ~Supports(realms.seq[1], arg.authc_token.cls))
    => /\ outcome.exc = "UnknownAccountException"
       /\ Count("AUTHENTICATION.SUCCEEDED") = 0

\* C6: when the strategy, run over several realms, answers None, the call
\* fails with UnknownAccountException
C6_NullResult ==
    (IsAuth /\ Verified /\ MultiRealm /\ arg.verdict.kind = "None")
    => outcome.exc = "UnknownAccountException"

\* C7: with exactly one realm, a call that passes the tier gate invokes
\* that realm once and never the strategy
C7_SingleRealm ==
    (IsAuth /\ ~Gated /\ ~realms.none /\ Len(realms.seq) = 1)
    => /\ realm_calls = realms.seq
       /\ strategy_calls = <<>>

\* C8: after init_realms the registry maps every token class to the realms
\* of the list that support it, in configuration order
C8_Registry ==
    op = "init_realms"
    => \A c \in TokenClasses :
         Resolved(token_realm_resolver, c)[c]
            = SelectSeq(arg, LAMBDA n : Supports(n, c))

\* C9: without an event bus, a call that reaches a notification ends in
\* AuthenticationEventException, and no account is ever returned without
\* AUTHENTICATION.SUCCEEDED having been published
C9_MissingNotifier ==
    /\ (/\ IsAuth /\ Verified /\ event_bus = None
        /\ arg.verdict.kind \in {"account", "AuthenticationException"})
       => /\ outcome.exc = "AuthenticationEventException"
          /\ published = <<>>
    /\ (IsAuth /\ outcome.exc = None)
       => Count("AUTHENTICATION.SUCCEEDED") = 1

C9_Witness ==
    /\ IsAuth /\ Verified /\ event_bus = None
    /\ arg.verdict.kind = "account"
    /\ arg.verdict.required_authc_tokens <= TIER(arg.authc_token.cls)
    /\ outcome.exc = "AuthenticationEventException"

\* C10: clear_cache returns normally for every event and in every state
C10_ClearCacheNeverRaises == op = "clear_cache" => outcome.exc = None

\* C11: once the authenticator has an event bus and its realms, clear_cache
\* is registered for SESSION.EXPIRE and SESSION.STOP, whichever came first
C11_Subscribed ==
    (constructed /\ event_bus # None /\ ~realms.none /\ realms.seq # <<>>)
    => subscriptions = {"SESSION.EXPIRE", "SESSION.STOP"}

\* what C14 says of a call whose verification yields an account that
\* requires no more tokens than the submitted token's tier
SuccessCase ==
    /\ IsAuth /\ Verified
    /\ arg.verdict.kind = "account"
    /\ arg.verdict.required_authc_tokens <= TIER(arg.authc_token.cls)

SuccessOutcome ==
    /\ published = <<Event("AUTHENTICATION.SUCCEEDED",
                           arg.verdict.account_id, None)>>
    /\ outcome = [exc |-> None, account |-> AccountOf(arg.verdict)]

C15_StrategyRealms ==
    (IsAuth /\ MultiRealm /\ strategy_calls # <<>>)
    => strategy_calls =
         <<SelectSeq(realms.seq,
                     LAMBDA n : Supports(n, arg.authc_token.cls))>>

\* what C16 says of a verification failure that does not trigger locking
NoLockCase ==
    /\ IsAuth /\ Verified
    /\ arg.verdict.kind = "AuthenticationException"
    /\ \/ locking_limit = 0
       \/ arg.verdict.failed_attempts <= locking_limit

NoLockOutcome ==
    /\ published = <<Event("AUTHENTICATION.FAILED",
                           arg.token_after.username, None)>>
    /\ locked = <<>>
    /\ outcome.exc = "AuthenticationException"

C17_ReadOnly ==
    [][(~realms.none /\ op' \in {"authenticate_account", "clear_cache"})
        => UNCHANGED <<token_realm_resolver, realms, locking_realm,
                       locking_limit>>]_vars

\* the evictions of a clear_cache call that asks every realm that has an
\* identifier in the event and offers clear_cached_credentials
Evictions(items) ==
    LET hit == SelectSeq(realms.seq,
                         LAMBDA n : /\ items.from_source[n] # None
                                    /\ Realm(n).can_clear)
    IN  [i \in DOMAIN hit |->
            [realm |-> hit[i], identifier |-> items.from_source[hit[i]]]]

\* C18: on a well-formed event every realm with an identifier in the event
\* is told to evict it and no other realm is; a realm without
\* clear_cached_credentials does not stop the realms after it
C18_EvictsEachRealm ==
    (op = "clear_cache" /\ ~realms.none /\ arg.kind = "event")
    => evicted = Evictions(arg)

\* C19: a call that ends with AdditionalAuthenticationRequired has
\* published AUTHENTICATION.PROGRESS exactly once, and neither SUCCEEDED
\* nor FAILED
C19_ProgressOnce ==
    (IsAuth /\ outcome.exc = "AdditionalAuthenticationRequired")
    => /\ Count("AUTHENTICATION.PROGRESS") = 1
       /\ Count("AUTHENTICATION.SUCCEEDED") = 0
       /\ Count("AUTHENTICATION.FAILED") = 0

\* C20: with an mfa_challenger configured, a call whose verification asks
\* for another token sends the challenge for the account and ends with
\* AdditionalAuthenticationRequired
C20_Challenge ==
    (/\ IsAuth /\ Verified /\ MultiRealm /\ event_bus # None
     /\ mfa_challenger # None
     /\ arg.verdict.kind = "account"
     /\ arg.verdict.required_authc_tokens > TIER(arg.authc_token.cls))
    => /\ outcome.exc = "AdditionalAuthenticationRequired"
       /\ challenged = <<AccountOf(arg.verdict)>>

\* C12: after clear() the token's identifier and host are None, its
\* is_remember_me is false and every byte of its password is zero
C12_Cleared ==
    (upt.exists /\ upt.op = "clear")
    => /\ upt.identifier = None
       /\ upt.host = None
       /\ upt.is_remember_me = FALSE
       /\ \A i \in DOMAIN upt.password : upt.password[i] = 0

\* C13: once a token whose secret is not all NUL has been cleared, neither
\* its password nor its credentials yields the secret it was constructed
\* with
C13_SecretGone ==
    (/\ upt.exists /\ upt.op = "clear"
     /\ \E i \in DOMAIN upt.given.password.chars :
            upt.given.password.chars[i] # 0)
    => /\ upt.password # utf8(upt.given.password.chars)
       /\ upt.credentials # upt.given.password

====
